---- MODULE Spec2Model ----
(***************************************************************************)
(* A model of hassio/bootstrap.py: the preflight check of the environment, *)
(* the composition root with the filesystem bootstrap and the host-id      *)
(* capture, the legacy cleanup, and the registration of the stop signals.  *)
(***************************************************************************)
EXTENDS Integers, Sequences, FiniteSets, TLC

VARIABLES
    pc,            \* position in the function being executed
    idx,           \* index of the loop / of the statement block being executed
    ret,           \* what the function returned: <<>> while running, <<v>> after
    log,           \* records emitted through _LOGGER, oldest first
    environ,       \* keys present in os.environ
    socket,        \* SOCKET_DOCKER.is_socket()
    path,          \* executables shutil.which resolves
    coresys,       \* the CoreSys object: whether it exists, and its subsystem slots
    assigned,      \* how many times each subsystem attribute was assigned
    machine_file,  \* /etc/machine-id as observed: <<>> absent, <<content>> present
    reads,         \* number of read_text() calls on MACHINE_ID
    machine_id,    \* coresys.machine_id: <<>> unset, <<value>> set
    fs,            \* the filesystem below the data root: node -> kind
    fs0,           \* the filesystem when the function was entered
    snap,          \* filesystem and log as the first initialize_system_data left them
    calls,         \* completed calls of initialize_system_data
    failed_at,     \* index of the directory whose creation raised, 0 if none
    handlers,      \* signals bound with loop.add_signal_handler
    ready,         \* the loop's queue of callbacks scheduled with call_soon
    delivered,     \* signals whose handler has run, oldest first
    stopped        \* the loop has run loop.stop

vars == <<pc, idx, ret, log, environ, socket, path, coresys, assigned,
          machine_file, reads, machine_id, fs, fs0, snap, calls, failed_at,
          handlers, ready, delivered, stopped>>

envVars  == <<environ, socket, path>>
coreVars == <<coresys, assigned, machine_file, reads, machine_id>>
fsVars   == <<fs, fs0, snap, calls, failed_at>>
sigVars  == <<handlers, ready, delivered, stopped>>

----------------------------------------------------------------------------
(* Bounds of the model *)

\* initial entries of the filesystem that are not directories
MaxFiles == 1
\* length of the content of the machine-id file
MaxIdLen == 3
\* signal deliveries in one behaviour
MaxSignals == 3

----------------------------------------------------------------------------
(* Values shared by the functions *)

None == <<>>
Some(v) == <<v>>

Fatal(item)   == [level |-> "fatal", item |-> item]
Warning(item) == [level |-> "warning", item |-> item]
Info(item)    == [level |-> "info", item |-> item]

ENV_SHARE == "SUPERVISOR_SHARE"
ENV_NAME  == "SUPERVISOR_NAME"
ENV_REPO  == "HOMEASSISTANT_REPOSITORY"

\* the tuple the for loop of check_environment iterates over
EnvKeys == <<ENV_SHARE, ENV_NAME, ENV_REPO>>

Executables == {"socat", "gdbus"}

----------------------------------------------------------------------------
(* check_environment *)

\* os.environ[key] does not raise KeyError
EnvHas(key) == key \in environ

\* shutil.which(cmd) is truthy
Which(cmd) == cmd \in path

IsSocket == socket

SocatFound == Which("socat")

\* variant: the second lookup repeats 'socat'
GdbusFound_SocatAgain == Which("socat")

GdbusFound == Which("gdbus")

\* one iteration of the loop over the three keys
CheckEnvKey ==
    /\ pc = "env"
    /\ IF EnvHas(EnvKeys[idx])
         THEN /\ IF idx < Len(EnvKeys)
                    THEN pc' = "env" /\ idx' = idx + 1
                    ELSE pc' = "socket" /\ idx' = 0
              /\ UNCHANGED <<log, ret>>
         ELSE /\ log' = Append(log, Fatal(EnvKeys[idx]))
              /\ ret' = Some(FALSE)
              /\ pc' = "returned"
              /\ idx' = 0
    /\ UNCHANGED <<envVars, coreVars, fsVars, sigVars>>

\* variant: the socket check logs and goes on to the next check
CheckSocket_LogAndGoOn ==
    /\ pc = "socket"
    /\ pc' = "socat"
    /\ log' = IF IsSocket THEN log ELSE Append(log, Fatal("docker socket"))
    /\ UNCHANGED <<idx, ret, envVars, coreVars, fsVars, sigVars>>

CheckSocket ==
    /\ pc = "socket"
    /\ IF IsSocket
         THEN pc' = "socat" /\ UNCHANGED <<log, ret>>
         ELSE /\ log' = Append(log, Fatal("docker socket"))
              /\ ret' = Some(FALSE)
              /\ pc' = "returned"
    /\ UNCHANGED <<idx, envVars, coreVars, fsVars, sigVars>>

CheckSocat ==
    /\ pc = "socat"
    /\ IF SocatFound
         THEN pc' = "gdbus" /\ UNCHANGED <<log, ret>>
         ELSE /\ log' = Append(log, Fatal("socat"))
              /\ ret' = Some(FALSE)
              /\ pc' = "returned"
    /\ UNCHANGED <<idx, envVars, coreVars, fsVars, sigVars>>

CheckGdbus ==
    /\ pc = "gdbus"
    /\ IF GdbusFound
         THEN ret' = Some(TRUE) /\ UNCHANGED log
         ELSE /\ log' = Append(log, Fatal("gdbus"))
              /\ ret' = Some(FALSE)
    /\ pc' = "returned"
    /\ UNCHANGED <<idx, envVars, coreVars, fsVars, sigVars>>

----------------------------------------------------------------------------
(* The filesystem below the data root *)

Top == "/"
Root == "hassio"
Addons == "addons"
OldBuild == "addons/build"
OldBuildEntry == "addons/build/x"

\* config.path_homeassistant ... config.path_apparmor with the mkdir flavour used,
\* in the order initialize_system_data handles them
Dirs == <<
    [path |-> "homeassistant", parents |-> FALSE],
    [path |-> "ssl",           parents |-> FALSE],
    [path |-> "addons/data",   parents |-> TRUE],
    [path |-> "addons/local",  parents |-> TRUE],
    [path |-> "addons/git",    parents |-> TRUE],
    [path |-> "tmp",           parents |-> TRUE],
    [path |-> "backup",        parents |-> FALSE],
    [path |-> "share",         parents |-> FALSE],
    [path |-> "apparmor",      parents |-> FALSE] >>

NumDirs == Len(Dirs)

Required == {Dirs[i].path : i \in 1..NumDirs}

Nodes == Required \cup {Root, Addons, OldBuild, OldBuildEntry}

\* the directory a path lies in
Parent(n) ==
    CASE n = Root -> Top
      [] n \in {"addons/data", "addons/local", "addons/git", OldBuild} -> Addons
      [] n = OldBuildEntry -> OldBuild
      [] OTHER -> Root

KindOf(f, n) == IF n = Top THEN "dir" ELSE f[n]

\* variant: the existence test never succeeds
IsDir_Never(f, n) == FALSE

\* Path.is_dir()
IsDir(f, n) == KindOf(f, n) = "dir"

Children(n) == {c \in Nodes : Parent(c) = n}

\* os.mkdir(n): the set of possible outcomes. Besides the errors the state of the
\* filesystem decides, the call may fail with a permission or I/O error.
OsMkdir(f, n) ==
    IF KindOf(f, n) # "absent"
      THEN {[fs |-> f, err |-> "FileExistsError"]}
    ELSE IF KindOf(f, Parent(n)) = "absent"
      THEN {[fs |-> f, err |-> "FileNotFoundError"]}
    ELSE IF KindOf(f, Parent(n)) = "file"
      THEN {[fs |-> f, err |-> "NotADirectoryError"]}
    ELSE {[fs |-> [f EXCEPT ![n] = "dir"], err |-> "none"],
          [fs |-> f, err |-> "PermissionError"]}

RECURSIVE PathMkdir(_, _, _, _)
\* Path.mkdir(parents=parents, exist_ok=exist_ok) on node n
PathMkdir(f, n, parents, exist_ok) ==
    UNION { CASE o.err = "none" -> {o}
              [] o.err = "FileNotFoundError" ->
                   IF ~parents \/ n = Top
                     THEN {o}
                     ELSE UNION { IF q.err = "none"
                                    THEN PathMkdir(q.fs, n, FALSE, exist_ok)
                                    ELSE {q}
                                  : q \in PathMkdir(f, Parent(n), TRUE, TRUE) }
              [] OTHER ->
                   IF exist_ok /\ IsDir(f, n)
                     THEN {[fs |-> f, err |-> "none"]}
                     ELSE {o}
            : o \in OsMkdir(f, n) }

\* Path.rmdir(): fails when the directory has entries, or when it is denied
OsRmdir(f, n) ==
    IF \E c \in Children(n) : f[c] # "absent"
      THEN {[fs |-> f, err |-> "OSError"]}
      ELSE {[fs |-> [f EXCEPT ![n] = "absent"], err |-> "none"],
            [fs |-> f, err |-> "OSError"]}

RECURSIVE SubsetsUpTo(_, _)
SubsetsUpTo(S, k) ==
    IF k = 0 THEN {{}}
    ELSE LET r == SubsetsUpTo(S, k - 1)
         IN r \cup {x \cup {e} : x \in r, e \in S}

FsOf(D, F) == [n \in Nodes |-> IF n \in D THEN "dir" ELSE IF n \in F THEN "file" ELSE "absent"]

\* the filesystems a function may find: any tree over Nodes with at most
\* MaxFiles entries that are not directories
FsStates ==
    UNION { {FsOf(D, F) : F \in SubsetsUpTo({n \in Nodes \ D : Parent(n) \in D \cup {Top}}, MaxFiles)}
            : D \in {X \in SUBSET Nodes : \A n \in X : Parent(n) \in X \cup {Top}} }

----------------------------------------------------------------------------
(* initialize_coresys *)

\* the attributes assigned, in the order of the assignments
Subsystems == <<"core", "updater", "api", "supervisor", "homeassistant", "addons",
                "snapshots", "host", "tasks", "services", "discovery", "dbus",
                "hassos">>

NumSubsystems == Len(Subsystems)

SubsystemNames == {Subsystems[i] : i \in 1..NumSubsystems}

\* a CoreSys that does not exist yet; slot value 0 is the null handle
NoCoreSys == [constructed |-> FALSE, sub |-> [s \in SubsystemNames |-> 0]]

\* coresys = CoreSys(loop); the constructor may raise
NewCoreSys ==
    /\ pc = "start"
    /\ \/ /\ coresys' = [coresys EXCEPT !.constructed = TRUE]
          /\ pc' = "subsystems"
          /\ idx' = 1
       \/ /\ pc' = "raised"
          /\ UNCHANGED <<coresys, idx>>
    /\ UNCHANGED <<ret, log, envVars, assigned, machine_file, reads, machine_id,
                   fsVars, sigVars>>

\* variant: the last assignment is missing
AfterSubsystem_SkipLast(i) ==
    IF i < NumSubsystems - 1 THEN [pc |-> "subsystems", idx |-> i + 1]
                             ELSE [pc |-> "sysdata", idx |-> 1]

\* variant: initialize_system_data is called after the first assignment
AfterSubsystem_DataFirst(i) ==
    IF i = 1 THEN [pc |-> "sysdata", idx |-> 1]
    ELSE IF i < NumSubsystems THEN [pc |-> "subsystems", idx |-> i + 1]
    ELSE [pc |-> "hostid", idx |-> 0]

\* the statement that follows the assignment of subsystem i
AfterSubsystem(i) ==
    IF i < NumSubsystems THEN [pc |-> "subsystems", idx |-> i + 1]
                         ELSE [pc |-> "sysdata", idx |-> 1]

\* coresys.<name> = <Class>(coresys); the constructor may raise
ConstructSubsystem ==
    /\ pc = "subsystems"
    /\ \/ /\ coresys' = [coresys EXCEPT !.sub[Subsystems[idx]] = idx]
          /\ assigned' = [assigned EXCEPT ![Subsystems[idx]] = @ + 1]
          /\ pc' = AfterSubsystem(idx).pc
          /\ idx' = AfterSubsystem(idx).idx
       \/ /\ pc' = "raised"
          /\ UNCHANGED <<coresys, assigned, idx>>
    /\ UNCHANGED <<ret, log, envVars, machine_file, reads, machine_id, fsVars, sigVars>>

----------------------------------------------------------------------------
(* initialize_system_data *)

\* variant: the error is caught and the next directory handled
OnMkdirError_Swallow(i) ==
    IF i < NumDirs THEN [pc |-> "sysdata", failed_at |-> i]
                   ELSE [pc |-> "sysdata_ret", failed_at |-> i]

\* what a failed mkdir leads to: the error leaves the function
OnMkdirError(i) == [pc |-> "raised", failed_at |-> i]

\* one block: if not path.is_dir(): _LOGGER.info(...); path.mkdir(...)
EnsureDir ==
    /\ pc = "sysdata"
    /\ LET d == Dirs[idx]
           done == idx = NumDirs
       IN IF IsDir(fs, d.path)
            THEN /\ pc' = IF done THEN "sysdata_ret" ELSE "sysdata"
                 /\ UNCHANGED <<log, fs, failed_at>>
            ELSE /\ log' = Append(log, Info(d.path))
                 /\ \E o \in PathMkdir(fs, d.path, d.parents, FALSE) :
                      /\ fs' = o.fs
                      /\ IF o.err = "none"
                           THEN /\ pc' = IF done THEN "sysdata_ret" ELSE "sysdata"
                                /\ UNCHANGED failed_at
                           ELSE /\ pc' = OnMkdirError(idx).pc
                                /\ failed_at' = OnMkdirError(idx).failed_at
    /\ idx' = IF pc' = "sysdata" THEN idx + 1 ELSE 0
    /\ calls' = IF pc' = "sysdata_ret" THEN calls + 1 ELSE calls
    /\ snap' = IF pc' = "sysdata_ret" /\ calls = 0
                 THEN Some([fs |-> fs', log |-> log'])
                 ELSE snap
    /\ UNCHANGED <<ret, envVars, coreVars, fs0, sigVars>>

\* return config, back in initialize_coresys
SystemDataReturns ==
    /\ pc = "sysdata_ret"
    /\ pc' = "hostid"
    /\ UNCHANGED <<idx, ret, log, envVars, coreVars, fsVars, sigVars>>

\* return config, to a caller that calls initialize_system_data(coresys) again
CallAgain ==
    /\ pc = "sysdata_ret"
    /\ calls = 1
    /\ pc' = "sysdata"
    /\ idx' = 1
    /\ UNCHANGED <<ret, log, envVars, coreVars, fsVars, sigVars>>

----------------------------------------------------------------------------
(* host id *)

Whitespace == {" ", "\n"}

IdChars == {"a"} \cup Whitespace

RECURSIVE LStrip(_)
LStrip(s) == IF s # <<>> /\ Head(s) \in Whitespace THEN LStrip(Tail(s)) ELSE s

RECURSIVE RStrip(_)
RStrip(s) ==
    IF s # <<>> /\ s[Len(s)] \in Whitespace THEN RStrip(SubSeq(s, 1, Len(s) - 1)) ELSE s

\* variant: rstrip() in place of strip()
Strip_Right(s) == RStrip(s)

\* str.strip()
Strip(s) == RStrip(LStrip(s))

ExampleId == <<"a", "b", "c", "1", "2", "3", "\n">>

\* what MACHINE_ID may hold
Contents == UNION {[1..n -> IdChars] : n \in 0..MaxIdLen} \cup {ExampleId}

MachineFiles == {None} \cup {Some(c) : c \in Contents}

\* if MACHINE_ID.exists():
MachineIdExists ==
    /\ pc = "hostid"
    /\ \E file \in MachineFiles :
         /\ machine_file' = file
         /\ pc' = IF file = None THEN "return" ELSE "read"
    /\ UNCHANGED <<idx, ret, log, envVars, coresys, assigned, reads, machine_id,
                   fsVars, sigVars>>

\* coresys.machine_id = MACHINE_ID.read_text().strip()
SetMachineId ==
    /\ pc = "read"
    /\ reads' = reads + 1
    /\ machine_id' = Some(Strip(machine_file[1]))
    /\ pc' = "return"
    /\ UNCHANGED <<idx, ret, log, envVars, coresys, assigned, machine_file,
                   fsVars, sigVars>>

\* return coresys
ReturnCoreSys ==
    /\ pc = "return"
    /\ ret' = Some("coresys")
    /\ pc' = "returned"
    /\ UNCHANGED <<idx, log, envVars, coreVars, fsVars, sigVars>>

----------------------------------------------------------------------------
(* migrate_system_env *)

\* variant: rmdir outside the try
MigrateSystemEnv_NoCatch ==
    /\ pc = "migrate"
    /\ IF IsDir(fs, OldBuild)
         THEN \E o \in OsRmdir(fs, OldBuild) :
                /\ fs' = o.fs
                /\ IF o.err = "none"
                     THEN pc' = "returned" /\ ret' = Some("None")
                     ELSE pc' = "raised" /\ UNCHANGED ret
         ELSE pc' = "returned" /\ ret' = Some("None") /\ UNCHANGED fs
    /\ UNCHANGED <<idx, log, envVars, coreVars, fs0, snap, calls, failed_at, sigVars>>

MigrateSystemEnv ==
    /\ pc = "migrate"
    /\ IF IsDir(fs, OldBuild)
         THEN \E o \in OsRmdir(fs, OldBuild) :
                /\ fs' = o.fs
                /\ log' = IF o.err = "none"
                            THEN log
                            ELSE Append(log, Warning("old addons build dir"))
         ELSE UNCHANGED <<fs, log>>
    /\ pc' = "returned"
    /\ ret' = Some("None")
    /\ UNCHANGED <<idx, envVars, coreVars, fs0, snap, calls, failed_at, sigVars>>

----------------------------------------------------------------------------
(* reg_signal and the loop it registers with *)

\* the signals, in the order of the three try blocks
Signals == <<"SIGTERM", "SIGHUP", "SIGINT">>

NumSignals == Len(Signals)

SignalNames == {Signals[i] : i \in 1..NumSignals}

\* variant: the error of a binding leaves reg_signal
OnBindError_Raise(i) == [pc |-> "raised", idx |-> i, ret |-> None]

\* what a ValueError or RuntimeError of add_signal_handler leads to
OnBindError(i) ==
    IF i < NumSignals THEN [pc |-> "bind", idx |-> i + 1, ret |-> None]
                      ELSE [pc |-> "returned", idx |-> 0, ret |-> Some("None")]

\* one try block: loop.add_signal_handler(sig, lambda: loop.call_soon(loop.stop))
BindSignal ==
    /\ pc = "bind"
    /\ \/ /\ handlers' = handlers \cup {Signals[idx]}
          /\ pc' = IF idx < NumSignals THEN "bind" ELSE "returned"
          /\ idx' = IF idx < NumSignals THEN idx + 1 ELSE 0
          /\ ret' = IF idx < NumSignals THEN None ELSE Some("None")
          /\ UNCHANGED log
       \/ /\ log' = Append(log, Warning(Signals[idx]))
          /\ pc' = OnBindError(idx).pc
          /\ idx' = OnBindError(idx).idx
          /\ ret' = OnBindError(idx).ret
          /\ UNCHANGED handlers
    /\ UNCHANGED <<envVars, coreVars, fsVars, ready, delivered, stopped>>

\* variant: the handler calls loop.stop() itself
Handler_StopNow(q, st) == <<q, TRUE>>

\* what the bound lambda does to the loop: <<queue, stopped>>
Handler(q, st) == <<Append(q, "stop"), st>>

\* a bound signal is delivered to the running loop, which calls the lambda
DeliverSignal ==
    /\ pc = "returned"
    /\ ~stopped
    /\ Len(delivered) < MaxSignals
    /\ \E sig \in handlers :
         /\ delivered' = Append(delivered, sig)
         /\ ready' = Handler(ready, stopped)[1]
         /\ stopped' = Handler(ready, stopped)[2]
    /\ UNCHANGED <<pc, idx, ret, log, envVars, coreVars, fsVars, handlers>>

\* one iteration of the loop: it runs the callbacks that were scheduled
LoopRunOnce ==
    /\ pc = "returned"
    /\ ~stopped
    /\ ready # <<>>
    /\ stopped' = (\E i \in 1..Len(ready) : ready[i] = "stop")
    /\ ready' = <<>>
    /\ UNCHANGED <<pc, idx, ret, log, envVars, coreVars, fsVars, handlers, delivered>>

----------------------------------------------------------------------------
(* Specifications: one per function of the module, each from every input *)

EnvIdle == environ = {} /\ socket = FALSE /\ path = {}

CoreIdle(c) ==
    /\ coresys = c
    /\ assigned = [s \in SubsystemNames |-> IF c.sub[s] = 0 THEN 0 ELSE 1]
    /\ machine_file = None
    /\ reads = 0
    /\ machine_id = None

FsIdle(F) ==
    /\ fs \in F
    /\ fs0 = fs
    /\ snap = None
    /\ calls = 0
    /\ failed_at = 0

SigIdle == handlers = {} /\ ready = <<>> /\ delivered = <<>> /\ stopped = FALSE

NoFs == [n \in Nodes |-> "absent"]

\* the CoreSys initialize_coresys hands to its callees
WiredCoreSys ==
    [constructed |-> TRUE,
     sub |-> [s \in SubsystemNames |-> CHOOSE i \in 1..NumSubsystems : Subsystems[i] = s]]

InitEnv ==
    /\ pc = "env" /\ idx = 1 /\ ret = None /\ log = <<>>
    /\ environ \in SUBSET {EnvKeys[i] : i \in 1..Len(EnvKeys)}
    /\ socket \in BOOLEAN
    /\ path \in SUBSET Executables
    /\ CoreIdle(NoCoreSys) /\ FsIdle({NoFs}) /\ SigIdle

NextEnv == CheckEnvKey \/ CheckSocket \/ CheckSocat \/ CheckGdbus

SpecEnv == InitEnv /\ [][NextEnv]_vars

InitCore ==
    /\ pc = "start" /\ idx = 0 /\ ret = None /\ log = <<>>
    /\ EnvIdle /\ CoreIdle(NoCoreSys) /\ FsIdle(FsStates) /\ SigIdle

NextCore ==
    \/ NewCoreSys \/ ConstructSubsystem \/ EnsureDir \/ SystemDataReturns
    \/ MachineIdExists \/ SetMachineId \/ ReturnCoreSys

SpecCore == InitCore /\ [][NextCore]_vars

InitData ==
    /\ pc = "sysdata" /\ idx = 1 /\ ret = None /\ log = <<>>
    /\ EnvIdle /\ CoreIdle(WiredCoreSys) /\ FsIdle(FsStates) /\ SigIdle

NextData == EnsureDir \/ CallAgain

SpecData == InitData /\ [][NextData]_vars

InitMigrate ==
    /\ pc = "migrate" /\ idx = 0 /\ ret = None /\ log = <<>>
    /\ EnvIdle /\ CoreIdle(WiredCoreSys) /\ FsIdle(FsStates) /\ SigIdle

NextMigrate == MigrateSystemEnv

SpecMigrate == InitMigrate /\ [][NextMigrate]_vars

InitSignal ==
    /\ pc = "bind" /\ idx = 1 /\ ret = None /\ log = <<>>
    /\ EnvIdle /\ CoreIdle(NoCoreSys) /\ FsIdle({NoFs}) /\ SigIdle

NextSignal == BindSignal \/ DeliverSignal \/ LoopRunOnce

SpecSignal == InitSignal /\ [][NextSignal]_vars

\* the loop is running: a scheduled callback is run
FairSignal == SpecSignal /\ WF_vars(LoopRunOnce)

----------------------------------------------------------------------------
(* Properties of check_environment, under SpecEnv *)

Logged == {log[i] : i \in 1..Len(log)}

\* the six conditions in the order they are checked, and whether each holds
CheckOrder == <<ENV_SHARE, ENV_NAME, ENV_REPO, "docker socket", "socat", "gdbus">>

Holds(item) ==
    CASE item = "docker socket" -> socket
      [] item \in Executables -> item \in path
      [] OTHER -> item \in environ

Failing == {i \in 1..Len(CheckOrder) : ~Holds(CheckOrder[i])}

\* C1: check_environment returns True exactly when the three variables are in the
\* environment, the docker socket is a socket and socat and gdbus are on the search
\* path; with any non-empty set of these conditions failing it returns False.
C1_TrueIffAllHold ==
    pc = "returned" => ret = Some(Failing = {})

\* the call returned False although only gdbus is missing
C1_Witness ==
    /\ pc = "returned"
    /\ ret = Some(FALSE)
    /\ Failing = {6}

----------------------------------------------------------------------------
(* Properties of initialize_system_data called twice, under SpecData *)

\* C3: after a first call that succeeded, a second call raises nothing, creates
\* nothing, logs nothing and leaves the directories as the first call left them; a
\* required directory that exists is never changed.
C3_Idempotent ==
    /\ [](calls >= 1 =>
            /\ pc # "raised"
            /\ snap # None
            /\ fs = snap[1].fs
            /\ log = snap[1].log
            /\ \A d \in Required : fs[d] = "dir")
    /\ [][\A d \in Required : fs[d] = "dir" => fs'[d] = "dir"]_vars

\* the second call returned after a first call that created directories
C3_Witness ==
    /\ calls = 2
    /\ pc = "sysdata_ret"
    /\ fs0 # fs
    /\ log # <<>>

----------------------------------------------------------------------------
(* Properties of initialize_coresys, under SpecCore *)

AllRegistered == \A s \in SubsystemNames : coresys.sub[s] # 0

\* C4: when initialize_coresys returns, each of the thirteen subsystems has a
\* non-null handle, assigned exactly once; a handle is never replaced or removed.
C4_AllSubsystems ==
    /\ [](pc = "returned" =>
            /\ ret = Some("coresys")
            /\ coresys.constructed
            /\ Cardinality(SubsystemNames) = 13
            /\ \A s \in SubsystemNames : coresys.sub[s] # 0 /\ assigned[s] = 1)
    /\ [][\A s \in SubsystemNames :
            coresys.sub[s] # 0 => coresys'.sub[s] = coresys.sub[s]]_vars

\* initialize_coresys returned the context
C4_Witness ==
    /\ pc = "returned"
    /\ ret = Some("coresys")
    /\ coresys.sub["hassos"] # 0

AllWhitespace(s) == \A i \in 1..Len(s) : s[i] \in Whitespace

\* v is c without its leading and trailing whitespace
IsTrimOf(v, c) ==
    /\ v = <<>> \/ (v[1] \notin Whitespace /\ v[Len(v)] \notin Whitespace)
    /\ \E i \in 0..Len(c) : \E j \in i..Len(c) :
         /\ v = SubSeq(c, i + 1, j)
         /\ AllWhitespace(SubSeq(c, 1, i))
         /\ AllWhitespace(SubSeq(c, j + 1, Len(c)))

\* C7: with the machine-id file absent the machine id stays unset, nothing is logged
\* and nothing is raised; with it present it is read once and the machine id is set,
\* once, to the content without leading and trailing whitespace.
C7_HostId ==
    /\ [](pc \in {"return", "returned"} =>
            IF machine_file = None
              THEN machine_id = None /\ reads = 0 /\ log = snap[1].log
              ELSE /\ reads = 1
                   /\ machine_id # None
                   /\ IsTrimOf(machine_id[1], machine_file[1])
                   /\ machine_file = Some(ExampleId) =>
                        machine_id = Some(<<"a", "b", "c", "1", "2", "3">>))
    /\ [](pc \in {"hostid", "read"} => machine_id = None /\ reads = 0)
    /\ [][machine_id # None => machine_id' = machine_id]_vars

\* the context was returned with a machine id that lost whitespace on both sides
C7_Witness ==
    /\ pc = "returned"
    /\ machine_file = Some(<<" ", "a", "\n">>)
    /\ machine_id = Some(<<"a">>)

AfterSystemData == {"sysdata_ret", "hostid", "read", "return", "returned"}

\* C9: a failed creation of a required directory leaves initialize_system_data and
\* initialize_coresys as an error: nothing is returned, no later directory of the
\* list is created and the host id is not captured; without a failure all nine
\* directories exist when initialize_system_data returns.
C9_CreationFailure ==
    /\ failed_at # 0 =>
         /\ pc = "raised"
         /\ ret = None
         /\ calls = 0
         /\ machine_file = None /\ reads = 0 /\ machine_id = None
         /\ \A j \in (failed_at + 1)..NumDirs : fs[Dirs[j].path] = fs0[Dirs[j].path]
         /\ fs[Dirs[failed_at].path] # "dir"
    /\ pc \in AfterSystemData =>
         /\ failed_at = 0
         /\ \A d \in Required : fs[d] = "dir"

\* the creation of the backup directory failed on a file at its path, after the
\* directories before it were created
C9_Witness ==
    /\ pc = "raised"
    /\ failed_at = 7
    /\ fs["backup"] = "file"
    /\ fs0["tmp"] = "absent" /\ fs["tmp"] = "dir"
    /\ fs["share"] = "absent"

\* C10: the context is constructed first; the thirteen subsystems are registered
\* before the first directory is checked or created; the directories are done before
\* the machine-id file is examined; the context is returned after the host id.
C10_Order ==
    /\ []((\E s \in SubsystemNames : coresys.sub[s] # 0) \/ pc = "subsystems"
            => coresys.constructed)
    /\ [](pc = "sysdata" \/ calls > 0 \/ fs # fs0 \/ log # <<>> \/ failed_at # 0
            => coresys.constructed /\ AllRegistered)
    /\ [](pc \in {"hostid", "read", "return", "returned"} \/ machine_file # None
             \/ reads > 0 \/ machine_id # None
            => calls = 1 /\ \A d \in Required : fs[d] = "dir")
    /\ [](ret # None => pc = "returned")
    /\ [][fs' # fs => pc = "sysdata" /\ coresys.constructed /\ AllRegistered]_vars
    /\ [][pc' = "return" /\ pc # "return" => pc \in {"hostid", "read"}]_vars
    /\ [][pc' = "returned" /\ pc # "returned" => pc = "return"]_vars

\* the context was returned after directories were created and the host id was set
C10_Witness ==
    /\ pc = "returned"
    /\ fs # fs0
    /\ AllRegistered
    /\ machine_id # None

----------------------------------------------------------------------------
(* Properties of migrate_system_env, under SpecMigrate *)

\* C8: migrate_system_env never raises: without the addons/build directory nothing
\* happens; with it a removal is attempted, and when the removal fails (denied, or
\* the directory has entries) a warning is logged, the directory stays and the call
\* returns.
C8_CleanupTolerant ==
    /\ pc # "raised"
    /\ pc = "returned" =>
         /\ ret = Some("None")
         /\ IF fs0[OldBuild] # "dir"
              THEN fs = fs0 /\ log = <<>>
              ELSE \/ fs = fs0 /\ log = <<Warning("old addons build dir")>>
                   \/ /\ fs = [fs0 EXCEPT ![OldBuild] = "absent"]
                      /\ log = <<>>
                      /\ fs0[OldBuildEntry] = "absent"

\* the call returned with the directory still there and a warning logged
C8_Witness ==
    /\ pc = "returned"
    /\ fs[OldBuild] = "dir"
    /\ fs[OldBuildEntry] = "absent"
    /\ log = <<Warning("old addons build dir")>>

----------------------------------------------------------------------------
(* Properties of reg_signal, under SpecSignal and FairSignal *)

\* C5: whichever bindings fail, reg_signal returns without raising, a warning is
\* logged for each signal whose binding failed, and every other signal is bound.
C5_IndependentBindings ==
    /\ pc # "raised"
    /\ pc = "returned" =>
         /\ ret = Some("None")
         /\ \A sig \in SignalNames : (Warning(sig) \in Logged) # (sig \in handlers)
         /\ Len(log) = NumSignals - Cardinality(handlers)

\* reg_signal returned with SIGHUP not bound and the other two bound
C5_Witness ==
    /\ pc = "returned"
    /\ handlers = {"SIGTERM", "SIGINT"}
    /\ log = <<Warning("SIGHUP")>>

\* C6: the handler of a delivered signal does not stop the loop, it schedules
\* loop.stop; the loop stops when it runs that callback in its next iteration; a
\* delivery is eventually followed by the stop, and the loop never stops without one.
C6_DeferredStop ==
    /\ [][delivered' # delivered =>
            stopped' = stopped /\ ready' = Append(ready, "stop")]_vars
    /\ [][~stopped /\ stopped' =>
            delivered' = delivered /\ (\E i \in 1..Len(ready) : ready[i] = "stop")]_vars
    /\ [](stopped => delivered # <<>>)
    /\ (delivered # <<>>) ~> stopped

\* the loop stopped after a delivery, with the callback run
C6_Witness ==
    /\ stopped
    /\ Len(delivered) >= 1
    /\ ready = <<>>

====
